---- MODULE Spec2Model ----
(***************************************************************************)
(* A model of the BMP180 driver: the I2csensor base class (validated,      *)
(* retried register transactions against one device address) and the      *)
(* Bmp180sensor class (bring-up, raw sample acquisition, compensation).    *)
(*                                                                         *)
(* The event loop runs one handler at a time, so every action below is one *)
(* synchronous stretch of code: a public call up to the point where it     *)
(* hands a transaction to the bus, or the handlers that run when a bus     *)
(* transaction or a timer settles.                                         *)
(***************************************************************************)
EXTENDS Integers, Sequences, FiniteSets, TLC

(***************************************************************************)
(* Bounds of the model.                                                    *)
(***************************************************************************)
\* calls a caller may have outstanding at once (1: strictly one at a time)
MaxCalls == 1
\* the calls a caller starts without awaiting the earlier ones
MaxOverlap == 2
\* largest options.retryOptions.retries of an instance whose register
\* operations are called directly
MaxRetries == 2
\* largest options.retryOptions.retries of an instance whose public methods
\* are called
DriverRetries == 1

(***************************************************************************)
(* JavaScript values.  Every value is a record of the same shape so that   *)
(* any two can be compared: t is the kind, n/d a number as the fraction    *)
(* n/d (d > 0), b the bytes of a Buffer.                                   *)
(***************************************************************************)
Val(t, n, d, b) == [t |-> t, n |-> n, d |-> d, b |-> b]
Undefined == Val("undefined", 0, 1, <<>>)
Null == Val("null", 0, 1, <<>>)
Str == Val("string", 0, 1, <<>>)
Obj == Val("object", 0, 1, <<>>)
BusObj == Val("bus", 0, 1, <<>>)
True == Val("boolean", 1, 1, <<>>)
False == Val("boolean", 0, 1, <<>>)
Integer(n) == Val("number", n, 1, <<>>)
NaN == Val("nan", 0, 1, <<>>)
Infinity == Val("inf", 1, 1, <<>>)
NegInfinity == Val("inf", -1, 1, <<>>)
Buf(bytes) == Val("buffer", Len(bytes), 1, bytes)
\* what the bus resolves a block transfer with: {bytesRead, buffer}
Block(bytesRead, bytes) == Val("block", bytesRead, 1, bytes)

\* typeof
typeof(v) ==
  CASE v.t \in {"number", "nan", "inf"} -> "number"
    [] v.t \in {"null", "object", "bus", "buffer", "block"} -> "object"
    [] OTHER -> v.t

\* Number.isInteger
isInteger(v) == v.t = "number" /\ v.d = 1

\* Buffer.isBuffer
isBuffer(v) == v.t = "buffer"

\* _.isNil
isNil(v) == v.t \in {"undefined", "null"}

Zeros(len) == [k \in 1..len |-> 0]

(***************************************************************************)
(* Register map and oversampling settings.                                 *)
(***************************************************************************)
registers ==
  [calibration |-> 170, chipid |-> 208, version |-> 209,
   softreset |-> 224, control |-> 244, results |-> 246]

oversamplingSettings ==
  [ultra_low_power |-> [mode |-> 0, command |-> 52, delay |-> 5],
   standard |-> [mode |-> 1, command |-> 116, delay |-> 8],
   high |-> [mode |-> 2, command |-> 180, delay |-> 14],
   ultra_high_resolution |-> [mode |-> 3, command |-> 244, delay |-> 26],
   temperature |-> [mode |-> 255, command |-> 46, delay |-> 8]]

\* the address the Bmp180sensor constructor defaults to
DefaultAddress == 119
\* the byte isValidChipId expects
ChipId == 85
\* the byte softreset writes
ResetCommand == 182
\* the length of the calibration block
calLength == 22

(***************************************************************************)
(* Numbers.  A finite double is modelled as the exact fraction n/d in      *)
(* lowest terms; the three non-finite doubles are NaN and the infinities.  *)
(***************************************************************************)
Abs(x) == IF x < 0 THEN -x ELSE x

Sign(x) == IF x < 0 THEN -1 ELSE IF x > 0 THEN 1 ELSE 0

RECURSIVE Gcd(_, _)
Gcd(a, b) == IF b = 0 THEN a ELSE Gcd(b, a % b)

\* the number n/d, d # 0, in lowest terms with a positive denominator
Number(n, d) ==
  LET g == Gcd(Abs(n), Abs(d))
      s == Sign(d)
  IN  Val("number", (s * n) \div g, Abs(d) \div g, <<>>)

isFinite(x) == x.t = "number"

\* x + y
Plus(x, y) ==
  CASE x.t = "nan" \/ y.t = "nan" -> NaN
    [] x.t = "inf" /\ y.t = "inf" -> IF x.n = y.n THEN x ELSE NaN
    [] x.t = "inf" -> x
    [] y.t = "inf" -> y
    [] OTHER ->
         LET g == Gcd(x.d, y.d)
         IN  Number(x.n * (y.d \div g) + y.n * (x.d \div g),
                    (x.d \div g) * y.d)

\* -x
Negate(x) == IF x.t = "nan" THEN NaN ELSE Val(x.t, -x.n, x.d, <<>>)

\* x - y
Minus(x, y) == Plus(x, Negate(y))

\* x * y
Times(x, y) ==
  CASE x.t = "nan" \/ y.t = "nan" -> NaN
    [] x.t = "inf" \/ y.t = "inf" ->
         IF x.n = 0 \/ y.n = 0 THEN NaN
         ELSE IF Sign(x.n) = Sign(y.n) THEN Infinity ELSE NegInfinity
    [] OTHER ->
         LET g == Gcd(Abs(x.n), y.d)
             h == Gcd(Abs(y.n), x.d)
         IN  Number((x.n \div g) * (y.n \div h), (x.d \div h) * (y.d \div g))

\* x / y: a zero divisor gives an infinity, or NaN for 0 / 0
Divide(x, y) ==
  CASE x.t = "nan" \/ y.t = "nan" -> NaN
    [] x.t = "inf" /\ y.t = "inf" -> NaN
    [] x.t = "inf" -> IF y.n < 0 THEN Negate(x) ELSE x
    [] y.t = "inf" -> Integer(0)
    [] y.n = 0 ->
         IF x.n = 0 THEN NaN ELSE IF x.n > 0 THEN Infinity ELSE NegInfinity
    [] OTHER ->
         LET g == Gcd(Abs(x.n), Abs(y.n))
             h == Gcd(y.d, x.d)
         IN  Number((x.n \div g) * (y.d \div h), (x.d \div h) * (y.n \div g))

\* Math.floor
Floor(x) == IF isFinite(x) THEN Integer(x.n \div x.d) ELSE x

\* x < y
LessThan(x, y) ==
  CASE x.t = "nan" \/ y.t = "nan" -> FALSE
    [] x.t = "inf" -> x.n < 0 /\ ~(y.t = "inf" /\ y.n < 0)
    [] y.t = "inf" -> y.n > 0
    [] OTHER -> x.n * y.d < y.n * x.d

\* x < 0x80000000: the bound does not fit a 32-bit integer, so it is
\* compared through the integer part of x
LessThan2Pow31(x) ==
  CASE x.t = "nan" -> FALSE
    [] x.t = "inf" -> x.n < 0
    [] OTHER -> x.n \div x.d <= 2147483647

\* 2 ** k for an integer k
Pow2(k) == IF k >= 0 THEN Integer(2 ^ k) ELSE Number(1, 2 ^ (-k))

(***************************************************************************)
(* A synchronous function either returns a value or throws.                *)
(***************************************************************************)
Return(v) == [thrown |-> FALSE, error |-> "none", value |-> v]
Throw(e) == [thrown |-> TRUE, error |-> e, value |-> Undefined]

ErrInvalidAddress == "TypeError: Invalid I2C address"
ErrInvalidBus == "TypeError: Invalid bus it must a number or an i2c-bus.Bus"
ErrInvalidBusNumber == "TypeError: Invalid I2C bus number"
ErrInvalidCommand == "TypeError: Invalid I2C command"
ErrInvalidBuffer == "TypeError: Invalid buffer"
ErrNotCalibrated == "Error: calibrationdata is invalid"
ErrInvalidUt == "TypeError: Invalid Uncompensated Temperature"
ErrInvalidUp == "TypeError: Invalid Uncompensated Pressure"
ErrChipId == "Error: Expected BMP180 chip_id to be 0x55"
ErrNoCalibrationData == "Error: Calibration data not returned"
ErrNoResults == "Error: Results data not returned"
\* what a failing bus transaction rejects with
ErrTransport == "Error: EIO"
\* a promise rejected with the value undefined
ErrUndefined == "undefined"

(***************************************************************************)
(* I2csensor: validation of the arguments.                                 *)
(***************************************************************************)
validatedBus(bus) ==
  IF isNil(bus) THEN Throw(ErrInvalidBus)
  ELSE IF bus.t # "bus" THEN Throw(ErrInvalidBus)
  ELSE Return(bus)

\* a bus number check that lets negative numbers through
validatedBusnumberSigned(busnumber) ==
  IF ~isInteger(busnumber) THEN Throw(ErrInvalidBusNumber)
  ELSE Return(busnumber)

validatedBusnumber(busnumber) ==
  IF ~isInteger(busnumber) \/ busnumber.n < 0
  THEN Throw(ErrInvalidBusNumber)
  ELSE Return(busnumber)

\* an address check with the range of a register
validatedAddressWide(address) ==
  IF ~isInteger(address) \/ address.n < 0 \/ address.n > 255
  THEN Throw(ErrInvalidAddress)
  ELSE Return(address)

validatedAddress(address) ==
  IF ~isInteger(address) \/ address.n < 0 \/ address.n > 127
  THEN Throw(ErrInvalidAddress)
  ELSE Return(address)

\* a register check that lets 0x100 through
validatedCommandWide(command) ==
  IF ~isInteger(command) \/ command.n < 0 \/ command.n > 256
  THEN Throw(ErrInvalidCommand)
  ELSE Return(command)

validatedCommand(command) ==
  IF ~isInteger(command) \/ command.n < 0 \/ command.n > 255
  THEN Throw(ErrInvalidCommand)
  ELSE Return(command)

validatedBuffer(buffer) ==
  IF ~isBuffer(buffer) THEN Throw(ErrInvalidBuffer) ELSE Return(buffer)

(***************************************************************************)
(* Bmp180sensor: decoding and compensation.                                *)
(***************************************************************************)
\* Buffer.readUInt8(offset), readUInt16BE(offset), readInt16BE(offset)
readUInt8(bytes, offset) == bytes[offset + 1]

\* a 16-bit read with the low byte first
readUInt16LE(bytes, offset) == bytes[offset + 1] + bytes[offset + 2] * 256

readUInt16BE(bytes, offset) == bytes[offset + 1] * 256 + bytes[offset + 2]

\* a signed field read as unsigned
readInt16BEUnsigned(bytes, offset) == readUInt16BE(bytes, offset)

readInt16BE(bytes, offset) ==
  LET u == readUInt16BE(bytes, offset)
  IN  IF u >= 32768 THEN u - 65536 ELSE u

\* this._calibrationdata before any calibrate() succeeded
NoCalibration ==
  [nil |-> TRUE, ac1 |-> 0, ac2 |-> 0, ac3 |-> 0, ac4 |-> 0, ac5 |-> 0,
   ac6 |-> 0, b1 |-> 0, b2 |-> 0, mb |-> 0, mc |-> 0, md |-> 0]

\* the frozen object calibrate() builds from the response buffer
decodeCalibration(bytes) ==
  [nil |-> FALSE,
   ac1 |-> readInt16BE(bytes, 0),
   ac2 |-> readInt16BE(bytes, 2),
   ac3 |-> readInt16BE(bytes, 4),
   ac4 |-> readUInt16BE(bytes, 6),
   ac5 |-> readUInt16BE(bytes, 8),
   ac6 |-> readUInt16BE(bytes, 10),
   b1 |-> readInt16BE(bytes, 12),
   b2 |-> readInt16BE(bytes, 14),
   mb |-> readInt16BE(bytes, 16),
   mc |-> readInt16BE(bytes, 18),
   md |-> readInt16BE(bytes, 20)]

\* get isCalibrated
isCalibrated(cd) == ~cd.nil

\* B5 computed without asking for the calibration
computeB5Unchecked(cd, ut) ==
  IF ~isInteger(ut) THEN Throw(ErrInvalidUt)
  ELSE Return(Plus(Floor(Divide(Times(Minus(ut, Integer(cd.ac6)),
                                      Integer(cd.ac5)), Pow2(15))),
                   Divide(Times(Integer(cd.mc), Pow2(11)),
                          Plus(Floor(Divide(Times(Minus(ut, Integer(cd.ac6)),
                                                  Integer(cd.ac5)),
                                            Pow2(15))),
                               Integer(cd.md)))))

computeB5(cd, ut) ==
  IF ~isCalibrated(cd) THEN Throw(ErrNotCalibrated)
  ELSE IF ~isInteger(ut) THEN Throw(ErrInvalidUt)
  ELSE
    LET x1 == Floor(Divide(Times(Minus(ut, Integer(cd.ac6)), Integer(cd.ac5)),
                           Pow2(15)))
        x2 == Divide(Times(Integer(cd.mc), Pow2(11)),
                     Plus(x1, Integer(cd.md)))
        b5 == Plus(x1, x2)
    IN  Return(b5)

\* a temperature that is cut off without the 8 added for rounding
temperatureFromB5Truncated(b5) ==
  Divide(Floor(Divide(b5, Pow2(4))), Integer(10))

\* the statements of _convertUncompensatedTemperature after b5
temperatureFromB5(b5) ==
  Divide(Floor(Divide(Plus(b5, Integer(8)), Pow2(4))), Integer(10))

\* a function applied to what _computeB5 returned, unless it threw
afterB5(r, value) == IF r.thrown THEN r ELSE Return(value)

convertUncompensatedTemperature(cd, ut) ==
  IF ~isInteger(ut) THEN Throw(ErrInvalidUt)
  ELSE afterB5(computeB5(cd, ut),
               temperatureFromB5(computeB5(cd, ut).value))

\* _convertUncompensatedPressure, in the order of its statements: B3 and
\* B4 from B6, B7 from the raw pressure, P from B7 and B4, and the two
\* correction terms
pressureB3(cd, mode, b6) ==
  LET x1 == Floor(Divide(Times(Integer(cd.b2),
                               Floor(Divide(Times(b6, b6), Pow2(12)))),
                         Pow2(11)))
      x2 == Floor(Divide(Times(Integer(cd.ac2), b6), Pow2(11)))
      x3 == Plus(x1, x2)
  IN  Floor(Divide(Plus(Times(Plus(Integer(cd.ac1 * 4), x3), Pow2(mode)),
                        Integer(2)),
                   Pow2(2)))

pressureB4(cd, b6) ==
  LET x1 == Floor(Divide(Times(Integer(cd.ac3), b6), Pow2(13)))
      x2 == Floor(Divide(Floor(Times(Integer(cd.b1),
                                     Divide(Times(b6, b6), Pow2(12)))),
                         Pow2(16)))
      x3 == Floor(Divide(Plus(Plus(x1, x2), Integer(2)), Pow2(2)))
  IN  Floor(Divide(Times(Integer(cd.ac4), Plus(x3, Integer(32768))),
                   Pow2(15)))

pressureB7(mode, up, b3) ==
  Times(Minus(up, b3), Floor(Divide(Integer(50000), Pow2(mode))))

pressureP(b7, b4) ==
  IF LessThan2Pow31(b7)
  THEN Divide(Times(b7, Integer(2)), b4)
  ELSE Times(Divide(b7, b4), Integer(2))

pressureCorrected(p) ==
  LET x0 == Times(Floor(Divide(p, Pow2(8))), Floor(Divide(p, Pow2(8))))
      x1 == Floor(Divide(Times(x0, Integer(3038)), Pow2(16)))
      x2 == Floor(Divide(Times(Integer(-7357), p), Pow2(16)))
  IN  Plus(p, Floor(Divide(Plus(Plus(x1, x2), Integer(3791)), Pow2(4))))

pressureFromB6(cd, mode, up, b6) ==
  pressureCorrected(pressureP(pressureB7(mode, up,
                                         pressureB3(cd, mode, b6)),
                              pressureB4(cd, b6)))

convertUncompensatedPressure(cd, o, ut, up) ==
  IF ~isInteger(ut) THEN Throw(ErrInvalidUt)
  ELSE IF ~isInteger(up) THEN Throw(ErrInvalidUp)
  ELSE afterB5(computeB5(cd, ut),
               pressureFromB6(cd, o.mode, up,
                              Minus(computeB5(cd, ut).value, Integer(4000))))

(***************************************************************************)
(* The inputs the model draws from.                                        *)
(***************************************************************************)
\* the bus argument of the constructor: a Bus, bus numbers, and the rest
BusInputs ==
  {BusObj, Integer(1), Integer(0), Integer(-1), Number(3, 2), NaN, Str, Null,
   Undefined, Obj}

\* the address argument of the constructor and of the address setter
AddressInputs ==
  {Undefined, Integer(0), Integer(119), Integer(127), Integer(-1),
   Integer(128), Number(1, 2), NaN, Str, Null}

\* the command argument of the four register operations
CommandInputs ==
  {Integer(0), Integer(255), Integer(-1), Integer(256), Number(1, 2), NaN,
   Str, Undefined}

\* the byte argument of _writeI2cByte
ByteInputs == {Integer(0), Integer(255), Integer(-1), Integer(256), Str}

\* the buffer argument of _readI2cBlock and _writeI2cBlock
BufferInputs == {Buf(<<1, 2>>), Undefined, Str}

\* the values options.oss and the oss setter are given
OssChoices ==
  {oversamplingSettings.standard, oversamplingSettings.ultra_low_power}

\* the records the oss setter is given: two of the table, and one of the
\* caller's own with a longer delay
OssInputs ==
  OssChoices \cup {[mode |-> 2, command |-> 180, delay |-> 30]}

\* bytes the device answers a byte read with
ByteSamples == {ChipId, 0}

\* a calibration block with small coefficients, so that the exact
\* arithmetic of the compensation stays within 32-bit integers:
\* ac1 0, ac2 -2, ac3 0, ac4 3, ac5 1, ac6 40000, b1 22, b2 0, mb -19422,
\* mc 1, md 4
CalibrationSample ==
  <<0, 0, 255, 254, 0, 0, 0, 3, 0, 1, 156, 64, 0, 22, 0, 0, 180, 34, 0, 1,
    0, 4>>

\* a raw temperature of 27898 and a raw pressure register of 0x000100
TemperatureSample == <<108, 250>>
PressureSample == <<0, 1, 0>>

\* the registers of the device the model follows: what it may answer a
\* read of the calibration block with, and a read of the results of a
\* temperature and of a pressure conversion
DefaultDevice ==
  [calibration |-> {CalibrationSample}, temperature |-> {TemperatureSample},
   pressure |-> {PressureSample}]

\* calibration blocks whose md makes X1 + md zero for the raw temperature
\* 27898 (X1 = -1): one with mc 1, one with mc 0
ZeroDivisorCalibration ==
  <<0, 0, 255, 254, 0, 0, 0, 3, 0, 1, 156, 64, 0, 22, 0, 0, 180, 34, 0, 1,
    0, 1>>

ZeroOverZeroCalibration ==
  <<0, 0, 255, 254, 0, 0, 0, 3, 0, 1, 156, 64, 0, 22, 0, 0, 180, 34, 0, 0,
    0, 1>>

\* the devices the conversions are followed on
ConvertDevices ==
  {DefaultDevice,
   [DefaultDevice EXCEPT !.calibration = {ZeroDivisorCalibration}],
   [DefaultDevice EXCEPT !.calibration = {ZeroOverZeroCalibration}],
   [DefaultDevice EXCEPT !.temperature = {<<0, 0>>}]}

\* the calibration block of the data sheet's example: ac1 408, ac2 -72,
\* ac3 -14383, ac4 32741, ac5 32757, ac6 23153, b1 6190, b2 4, mb -32768,
\* mc -8711, md 2868
DatasheetCalibration ==
  <<1, 152, 255, 184, 199, 209, 127, 229, 127, 245, 90, 113, 24, 46, 0, 4,
    128, 0, 221, 249, 11, 52>>

\* a calibration block with the top bit set in signed and unsigned fields:
\* ac1 32767, ac2 -32768, ac3 -1, ac4 32768, ac5 65535, ac6 40000, b1 256,
\* b2 1, mb -19422, mc 6081, md 20
HighBitCalibration ==
  <<127, 255, 128, 0, 255, 255, 128, 0, 255, 255, 156, 64, 1, 0, 0, 1,
    180, 34, 23, 193, 0, 20>>

\* the calibration block 0x23 0x29 0xFF 0xC2 0xFC 0xD5 0x7F 0x17 0x66 0xA1
\* 0x80 0x00 0x00 0x16 0x00 0x2C 0xB4 0x22 0x17 0xC1 0x00 0x14
ExampleCalibration ==
  <<35, 41, 255, 194, 252, 213, 127, 23, 102, 161, 128, 0, 0, 22, 0, 44,
    180, 34, 23, 193, 0, 20>>

\* a device that answers the calibration read now with one block, now
\* with another
CalibrateDevice ==
  [DefaultDevice EXCEPT
     !.calibration = {DatasheetCalibration, HighBitCalibration,
                      ExampleCalibration}]

\* a device for the temperature conversion: the block of the data sheet,
\* the block of the spec's example or the block with small coefficients
TemperatureDevice ==
  [DefaultDevice EXCEPT
     !.calibration = {DatasheetCalibration, ExampleCalibration,
                      CalibrationSample}]

\* the raw temperatures _convertUncompensatedTemperature is called with
TemperatureInputs ==
  {Integer(0), Integer(1), Integer(16384), Integer(23153), Integer(27898),
   Integer(32768), Integer(40000), Integer(65535), Number(1, 2)}

\* the raw temperature _computeB5 is called with
RawInputs == {Integer(27898), Integer(0), Number(1, 2)}

\* the byte counts a block read may report: all of it, or a short read
BytesReadChoices(len) == {0, len}

(***************************************************************************)
(* State.                                                                  *)
(***************************************************************************)
VARIABLES
  device,           \* what the registers of the device on the bus hold
  ctorArgs,         \* the bus and the address the constructor was given
  constructed,      \* the constructor returned an instance
  ctorError,        \* what the constructor threw, "none" if it returned
  busOpened,        \* the constructor opened the bus itself (openSync)
  validbus,         \* this._validbus
  busnumber,        \* this._busnumber: Null or the bus number
  address,          \* this._address
  lastSetter,       \* the last assignment to the address property
  retries,          \* this._opts.retryOptions.retries
  oss,              \* this._opts.oss
  calibrationdata,  \* this._calibrationdata
  initialized,      \* this._initialized
  closed,           \* the bus resolved a close() of the driver
  calls             \* the calls the caller has made and not yet dropped

vars ==
  <<device, ctorArgs, constructed, ctorError, busOpened, validbus, busnumber,
    address, lastSetter, retries, oss, calibrationdata, initialized, closed,
    calls>>

\* the defaults Bmp180sensor merges its options over
bmp180sensorDefaults == [oss |-> oversamplingSettings.standard]

NoSetter ==
  [set |-> FALSE, arg |-> Undefined, error |-> "none", before |-> 0]

NoTxn == [kind |-> "none", address |-> 0, cmd |-> 0, arg |-> Undefined]

\* a slot of the caller that holds no call
NoCall ==
  [op |-> "none",          \* the public method called
   command |-> Undefined,  \* the register a register operation was given
   step |-> "none",        \* the part of its promise chain that is waiting
   phase |-> "idle",       \* io: a bus transaction is in flight;
                           \* backoff: the retry timer runs;
                           \* delay: the conversion delay runs; idle: nothing
   attempt |-> 0,          \* promise-retry's attempt number
   invocations |-> 0,      \* bus invocations of the current transaction
   failures |-> 0,         \* of which the bus rejected
   txn |-> NoTxn,          \* what the bus was last invoked with
   lastResp |-> Undefined, \* what the bus last resolved with
   lastErr |-> "none",     \* what the bus last rejected with
   exhausted |-> FALSE,    \* promise-retry gave the transaction up
   short |-> FALSE,        \* a block read reported fewer bytes than asked
   status |-> "none",      \* of the promise the caller holds: pending,
                           \* resolved, rejected; threw: no promise at all
   result |-> Undefined,
   error |-> "none",
   inner |-> "none",       \* of the promise temperature()/pressure() wrap
   innerError |-> "none",
   ut |-> Undefined,
   up |-> Undefined,
   usedMode |-> -1,        \* oss.mode the raw pressure was shifted with
   log |-> <<>>,           \* what the call asked of the bus and the timers
   alone |-> TRUE]         \* no other initialize() ran during this one

\* new Bmp180sensor(bus, address, {retryOptions: {retries}, oss}): the
\* fields of the instance, or the error thrown
Construct(bus, addressArg, retriesOpt, ossOpt, openOk) ==
  LET addr == IF addressArg = Undefined THEN Integer(DefaultAddress)
              ELSE addressArg
      va == validatedAddress(addr)
      failed(e) == [thrown |-> TRUE, error |-> e, opened |-> FALSE,
                    validbus |-> FALSE, busnumber |-> Null, address |-> 0]
      built(nr, opened) == [thrown |-> FALSE, error |-> "none",
                            opened |-> opened, validbus |-> TRUE,
                            busnumber |-> nr, address |-> va.value.n]
  IN  IF va.thrown THEN failed(va.error)
      ELSE CASE typeof(bus) = "object" ->
                  IF validatedBus(bus).thrown
                  THEN failed(validatedBus(bus).error)
                  ELSE built(Null, FALSE)
             [] typeof(bus) = "number" ->
                  IF validatedBusnumber(bus).thrown
                  THEN failed(validatedBusnumber(bus).error)
                  ELSE IF openOk THEN built(bus, TRUE)
                  ELSE failed(ErrTransport)
             [] OTHER -> failed(ErrInvalidBus)

\* the states construction can end in, for the given arguments
InitWith(buses, addresses, retriesOpts, ossOpts, slots) ==
  \E bus \in buses, addressArg \in addresses, r \in retriesOpts,
     o \in ossOpts, openOk \in BOOLEAN :
    LET i == Construct(bus, addressArg, r, o, openOk)
    IN  /\ ctorArgs = [bus |-> bus, address |-> addressArg]
        /\ constructed = ~i.thrown
        /\ ctorError = i.error
        /\ busOpened = i.opened
        /\ validbus = i.validbus
        /\ busnumber = i.busnumber
        /\ address = i.address
        /\ lastSetter = NoSetter
        /\ retries = IF i.thrown THEN 0 ELSE r
        /\ oss = IF i.thrown THEN bmp180sensorDefaults.oss ELSE o
        /\ calibrationdata = NoCalibration
        /\ initialized = FALSE
        /\ closed = FALSE
        /\ calls = [k \in slots |-> NoCall]

(***************************************************************************)
(* I2csensor: the four register operations.  Each validates its arguments  *)
(* and then hands the bus transaction to promise-retry.                    *)
(***************************************************************************)
LogEntry(ev, reg, arg) == [ev |-> ev, reg |-> reg, arg |-> arg]

\* a throw out of the method: the caller gets no promise
raise(c, e) ==
  [c EXCEPT !.status = "threw", !.error = e, !.phase = "idle",
            !.step = "done"]

\* PromiseRetry(fn, retryOptions): attempt 1 invokes the bus
PromiseRetry(c, kind, cmd, arg) ==
  [c EXCEPT !.phase = "io", !.attempt = 1, !.invocations = 1,
            !.failures = 0, !.exhausted = FALSE,
            !.txn = [kind |-> kind, address |-> address, cmd |-> cmd,
                     arg |-> arg],
            !.log = Append(@, LogEntry(kind, cmd, arg))]

\* a retry budget that is one attempt short
operationRetryShort(attempt, r) == attempt < r

\* operation.retry(err) after the attempt numbered `attempt` failed:
\* whether a further attempt is scheduled
operationRetry(attempt, r) == attempt <= r

\* the error the catch handler hands on when it calls retry()
retriedError(err) == ErrUndefined

readI2cByte(c, command) ==
  LET cmd == validatedCommand(command)
  IN  IF cmd.thrown THEN raise(c, cmd.error)
      ELSE PromiseRetry(c, "readByte", cmd.value.n, Undefined)

writeI2cByte(c, command, byte) ==
  LET cmd == validatedCommand(command)
  IN  IF cmd.thrown THEN raise(c, cmd.error)
      ELSE PromiseRetry(c, "writeByte", cmd.value.n, byte)

readI2cBlock(c, command, buffer) ==
  LET cmd == validatedCommand(command)
      buff == validatedBuffer(buffer)
  IN  IF cmd.thrown THEN raise(c, cmd.error)
      ELSE IF buff.thrown THEN raise(c, buff.error)
      ELSE PromiseRetry(c, "readBlock", cmd.value.n, buff.value)

writeI2cBlock(c, command, buffer) ==
  LET cmd == validatedCommand(command)
      buff == validatedBuffer(buffer)
  IN  IF cmd.thrown THEN raise(c, cmd.error)
      ELSE IF buff.thrown THEN raise(c, buff.error)
      ELSE PromiseRetry(c, "writeBlock", cmd.value.n, buff.value)

(***************************************************************************)
(* The bus (i2c-bus, promisified): what a transaction may resolve with.    *)
(***************************************************************************)
\* the data the device holds for a block read of len bytes
BlockSamples(len) ==
  CASE len = calLength -> device.calibration
    [] len = 2 -> device.temperature
    [] len = 3 -> device.pressure
    [] OTHER -> {[k \in 1..len |-> 255]}

\* the caller's buffer after the bus wrote the first n bytes of data to it
Filled(buffer, data, n) ==
  [k \in 1..Len(buffer) |-> IF k <= n THEN data[k] ELSE buffer[k]]

busResponses(txn) ==
  CASE txn.kind = "readByte" -> {Integer(v) : v \in ByteSamples}
    [] txn.kind = "writeByte" -> {Undefined}
    [] txn.kind = "readBlock" ->
         {Block(n, Filled(txn.arg.b, data, n)) :
            n \in BytesReadChoices(txn.arg.n),
            data \in BlockSamples(txn.arg.n)}
    [] txn.kind = "writeBlock" -> {Block(txn.arg.n, txn.arg.b)}

(***************************************************************************)
(* How a call's promise chain ends.                                        *)
(***************************************************************************)
\* the promise the caller holds resolves
resolved(c, v) ==
  [c EXCEPT !.status = "resolved", !.result = v, !.phase = "idle",
            !.step = "done"]

\* the promise the caller holds rejects
rejected(c, e) ==
  [c EXCEPT !.status = "rejected", !.error = e, !.phase = "idle",
            !.step = "done"]

\* temperature() and pressure() attach to the promise of the raw
\* acquisition with then(onFulfilled) alone: when that promise rejects no
\* handler runs, and neither resolve nor reject is ever called
wrappedRejected(c, e) ==
  [c EXCEPT !.inner = "rejected", !.innerError = e, !.phase = "idle",
            !.step = "done"]

\* the chain of call c rejects with e
chainRejected(c, e) ==
  IF c.op \in {"temperature", "pressure"} THEN wrappedRejected(c, e)
  ELSE rejected(c, e)

\* a register operation called from inside a handler: a throw rejects the
\* chain
inHandler(c) ==
  IF c.status = "threw"
  THEN chainRejected([c EXCEPT !.status = "pending"], c.error)
  ELSE c

(***************************************************************************)
(* Bmp180sensor: the methods and the handlers of their promise chains.     *)
(***************************************************************************)
\* isValidChipId(): the read, and the handler of its response
isValidChipId(c) ==
  [readI2cByte(c, Integer(registers.chipid)) EXCEPT !.step = "chipid"]

\* a chip id check that answers false for another chip
isValidChipIdThenFalse(response) ==
  IF response # Integer(ChipId) THEN Return(False) ELSE Return(True)

\* a chip id check that accepts every chip
isValidChipIdThenAny(response) == Return(True)

isValidChipIdThen(response) ==
  IF response # Integer(ChipId) THEN Throw(ErrChipId) ELSE Return(True)

\* softreset(): the write, and the handler of its response
softreset(c) ==
  [writeI2cByte(c, Integer(registers.softreset), Integer(ResetCommand))
     EXCEPT !.step = "softreset"]

softresetThen(response) == Return(True)

\* calibrate(): the block read, the handler of its response, and the
\* snapshot the handler stores
calibrate(c) ==
  [readI2cBlock(c, Integer(registers.calibration), Buf(Zeros(calLength)))
     EXCEPT !.step = "calibrate"]

calibrateThen(response) ==
  LET responseBuffer == validatedBuffer(Buf(response.b))
  IN  IF responseBuffer.thrown THEN responseBuffer
      ELSE IF responseBuffer.value.n < calLength
      THEN Throw(ErrNoCalibrationData)
      ELSE Return(True)

\* a calibrate() that assigns the fields of the snapshot it has one by
\* one and stops before the last
calibrateStoreFieldwise(response, cd) ==
  IF calibrateThen(response).thrown THEN cd
  ELSE IF cd.nil THEN decodeCalibration(response.b)
  ELSE [decodeCalibration(response.b) EXCEPT !.md = cd.md]

\* a calibrate() that checks the response and stores nothing
calibrateStoreNothing(response, cd) == cd

calibrateStore(response, cd) ==
  IF calibrateThen(response).thrown THEN cd
  ELSE decodeCalibration(response.b)

\* _getUncompensatedTemperature(): command write, delay, result read
getUncompensatedTemperature(c) ==
  [writeI2cByte(c, Integer(registers.control),
                Integer(oversamplingSettings.temperature.command))
     EXCEPT !.step = "tempWrite"]

temperatureDelay(c) ==
  [c EXCEPT !.phase = "delay", !.step = "tempDelay",
            !.log = Append(@, LogEntry("delay", 0,
                       Integer(oversamplingSettings.temperature.delay)))]

temperatureRead(c) ==
  [readI2cBlock(c, Integer(registers.results), Buf(Zeros(2)))
     EXCEPT !.step = "tempRead"]

getUncompensatedTemperatureThen(response) ==
  LET responseBuffer == validatedBuffer(Buf(response.b))
  IN  IF responseBuffer.thrown THEN responseBuffer
      ELSE IF responseBuffer.value.n < 2 THEN Throw(ErrNoResults)
      ELSE
        LET MSB == readUInt8(response.b, 0)
            LSB == readUInt8(response.b, 1)
        IN  Return(Integer(MSB * 2 ^ 8 + LSB))

\* _getUncompensatedPressure(): command write, delay, result read; each
\* step reads this._opts.oss when it runs
getUncompensatedPressure(c) ==
  [writeI2cByte(c, Integer(registers.control), Integer(oss.command))
     EXCEPT !.step = "pressWrite"]

pressureDelay(c) ==
  [c EXCEPT !.phase = "delay", !.step = "pressDelay",
            !.log = Append(@, LogEntry("delay", 0, Integer(oss.delay)))]

pressureRead(c) ==
  [readI2cBlock(c, Integer(registers.results), Buf(Zeros(3)))
     EXCEPT !.step = "pressRead"]

getUncompensatedPressureThen(response) ==
  LET responseBuffer == validatedBuffer(Buf(response.b))
  IN  IF responseBuffer.thrown THEN responseBuffer
      ELSE IF responseBuffer.value.n < 3 THEN Throw(ErrNoResults)
      ELSE
        LET MSB == readUInt8(response.b, 0)
            LSB == readUInt8(response.b, 1)
            XLSB == readUInt8(response.b, 2)
        IN  Return(Floor(Divide(Integer(MSB * 2 ^ 16 + LSB * 2 ^ 8 + XLSB),
                                Pow2(8 - oss.mode))))

\* temperature(): the handler of the raw temperature
\* resolve(value), or reject(err) from the catch around the conversion
settled(c, value) ==
  IF value.thrown THEN rejected(c, value.error) ELSE resolved(c, value.value)

temperatureThen(c, ut) ==
  settled(c, convertUncompensatedTemperature(calibrationdata, ut))

\* pressure(): the handler of the raw pressure
pressureThen(c, ut, up) ==
  settled(c, convertUncompensatedPressure(calibrationdata, oss, ut, up))

\* what a stretch of handlers leaves behind
After(c, cd, init) ==
  [call |-> c, calibrationdata |-> cd, initialized |-> init]

\* initialize(): the last handler of its chain
initializeThen(c) == After(resolved(c, True), calibrationdata, TRUE)

\* the handlers that run, one after the other, when the bus resolves the
\* transaction call c waits for
onFulfilled(c, response) ==
  CASE c.step = "raw" ->
         After(resolved(c, response), calibrationdata, initialized)
    [] c.step = "chipid" ->
         LET r == isValidChipIdThen(response)
         IN  IF r.thrown
             THEN After(chainRejected(c, r.error), calibrationdata,
                        initialized)
             ELSE IF c.op = "initialize"
             THEN After(inHandler(softreset(c)), calibrationdata, initialized)
             ELSE After(resolved(c, r.value), calibrationdata, initialized)
    [] c.step = "softreset" ->
         LET r == softresetThen(response)
         IN  IF c.op = "initialize"
             THEN After(inHandler(calibrate(c)), calibrationdata, initialized)
             ELSE After(resolved(c, r.value), calibrationdata, initialized)
    [] c.step = "calibrate" ->
         LET r == calibrateThen(response)
             cd == calibrateStore(response, calibrationdata)
         IN  IF r.thrown
             THEN After(chainRejected(c, r.error), cd, initialized)
             ELSE IF c.op = "initialize"
             THEN [initializeThen(c) EXCEPT !.calibrationdata = cd]
             ELSE After(resolved(c, r.value), cd, initialized)
    [] c.step = "tempWrite" ->
         After(temperatureDelay(c), calibrationdata, initialized)
    [] c.step = "tempRead" ->
         LET r == getUncompensatedTemperatureThen(response)
             c1 == [c EXCEPT !.ut = r.value]
         IN  IF r.thrown
             THEN After(chainRejected(c, r.error), calibrationdata,
                        initialized)
             ELSE IF c.op = "pressure"
             THEN After(inHandler(getUncompensatedPressure(c1)),
                        calibrationdata, initialized)
             ELSE After(temperatureThen([c1 EXCEPT !.inner = "fulfilled"],
                                        r.value),
                        calibrationdata, initialized)
    [] c.step = "pressWrite" ->
         After(pressureDelay(c), calibrationdata, initialized)
    [] c.step = "pressRead" ->
         LET r == getUncompensatedPressureThen(response)
             c1 == [c EXCEPT !.up = r.value, !.usedMode = oss.mode]
         IN  IF r.thrown
             THEN After(chainRejected(c, r.error), calibrationdata,
                        initialized)
             ELSE After(pressureThen([c1 EXCEPT !.inner = "fulfilled"],
                                     c1.ut, r.value),
                        calibrationdata, initialized)

\* the handler that runs when the conversion delay of call c is over
onDelay(c) ==
  IF c.step = "tempDelay" THEN inHandler(temperatureRead(c))
  ELSE inHandler(pressureRead(c))

\* the catch handler of an attempt and promise-retry's reaction to it:
\* another attempt after a backoff, or the end of the chain
onRejected(c, err) ==
  LET c1 == [c EXCEPT !.failures = @ + 1, !.lastErr = err]
  IN  IF operationRetry(c.attempt, retries)
      THEN [c1 EXCEPT !.phase = "backoff"]
      ELSE chainRejected([c1 EXCEPT !.exhausted = TRUE], retriedError(err))

\* the retry timer fires: the next attempt invokes the bus again
nextAttempt(c) ==
  [c EXCEPT !.phase = "io", !.attempt = @ + 1, !.invocations = @ + 1,
            !.txn.address = address]

(***************************************************************************)
(* Actions: the caller's calls.                                            *)
(***************************************************************************)
\* a slot is free for a new call on the instance
Free(i) == constructed /\ calls[i] = NoCall

begin(op) == [NoCall EXCEPT !.op = op, !.status = "pending"]

unchangedInstance ==
  UNCHANGED <<device, ctorArgs, constructed, ctorError, busOpened, validbus,
              busnumber, closed>>

unchangedDriver ==
  UNCHANGED <<address, lastSetter, retries, oss, calibrationdata,
              initialized>>

CallReadI2cByte(i, command) ==
  /\ Free(i)
  /\ calls' = [calls EXCEPT
                  ![i] = readI2cByte([begin("_readI2cByte") EXCEPT
                             !.step = "raw",
                             !.command = command],
                          command)]
  /\ unchangedInstance /\ unchangedDriver

CallWriteI2cByte(i, command, byte) ==
  /\ Free(i)
  /\ calls' = [calls EXCEPT
                  ![i] = writeI2cByte([begin("_writeI2cByte") EXCEPT
                             !.step = "raw",
                             !.command = command],
                          command, byte)]
  /\ unchangedInstance /\ unchangedDriver

CallReadI2cBlock(i, command, buffer) ==
  /\ Free(i)
  /\ calls' = [calls EXCEPT
                  ![i] = readI2cBlock([begin("_readI2cBlock") EXCEPT
                             !.step = "raw",
                             !.command = command],
                          command, buffer)]
  /\ unchangedInstance /\ unchangedDriver

CallWriteI2cBlock(i, command, buffer) ==
  /\ Free(i)
  /\ calls' = [calls EXCEPT
                  ![i] = writeI2cBlock([begin("_writeI2cBlock") EXCEPT
                             !.step = "raw",
                             !.command = command],
                          command, buffer)]
  /\ unchangedInstance /\ unchangedDriver

CallIsValidChipId(i) ==
  /\ Free(i)
  /\ calls' = [calls EXCEPT ![i] = isValidChipId(begin("isValidChipId"))]
  /\ unchangedInstance /\ unchangedDriver

CallSoftreset(i) ==
  /\ Free(i)
  /\ calls' = [calls EXCEPT ![i] = softreset(begin("softreset"))]
  /\ unchangedInstance /\ unchangedDriver

CallCalibrate(i) ==
  /\ Free(i)
  /\ calls' = [calls EXCEPT ![i] = calibrate(begin("calibrate"))]
  /\ unchangedInstance /\ unchangedDriver

\* initialize() clears the flag and starts with the chip id
CallInitialize(i) ==
  /\ Free(i)
  /\ initialized' = FALSE
  /\ calls' =
       [k \in DOMAIN calls |->
          IF k = i
          THEN isValidChipId(
                 [begin("initialize") EXCEPT
                    !.alone = \A j \in DOMAIN calls :
                                ~(calls[j].op = "initialize"
                                  /\ calls[j].status = "pending")])
          ELSE IF calls[k].op = "initialize"
          THEN [calls[k] EXCEPT !.alone = FALSE]
          ELSE calls[k]]
  /\ unchangedInstance
  /\ UNCHANGED <<address, lastSetter, retries, oss, calibrationdata>>

\* a synchronous method returned r or threw
returned(c, r) ==
  IF r.thrown THEN raise(c, r.error)
  ELSE [c EXCEPT !.status = "returned", !.result = r.value,
                 !.phase = "idle", !.step = "done"]

\* sensor._computeB5(ut)
CallComputeB5(i, ut) ==
  /\ Free(i)
  /\ calls' = [calls EXCEPT
                  ![i] = returned([begin("_computeB5") EXCEPT !.ut = ut],
                                  computeB5(calibrationdata, ut))]
  /\ unchangedInstance /\ unchangedDriver

\* sensor._convertUncompensatedTemperature(ut)
CallConvertUncompensatedTemperature(i, ut) ==
  /\ Free(i)
  /\ calls' = [calls EXCEPT
                  ![i] = returned(
                           [begin("_convertUncompensatedTemperature")
                              EXCEPT !.ut = ut],
                           convertUncompensatedTemperature(calibrationdata,
                                                           ut))]
  /\ unchangedInstance /\ unchangedDriver

CallTemperature(i) ==
  /\ Free(i)
  /\ calls' = [calls EXCEPT
                  ![i] = getUncompensatedTemperature(
                           [begin("temperature") EXCEPT
                              !.inner = "pending"])]
  /\ unchangedInstance /\ unchangedDriver

\* pressure() that starts with the pressure sample
CallPressureFirst(i) ==
  /\ Free(i)
  /\ calls' = [calls EXCEPT
                  ![i] = getUncompensatedPressure(
                           [begin("pressure") EXCEPT !.inner = "pending"])]
  /\ unchangedInstance /\ unchangedDriver

CallPressure(i) ==
  /\ Free(i)
  /\ calls' = [calls EXCEPT
                  ![i] = getUncompensatedTemperature(
                           [begin("pressure") EXCEPT !.inner = "pending"])]
  /\ unchangedInstance /\ unchangedDriver

\* sensor.address = value
SetAddress(value) ==
  /\ constructed
  /\ LET v == validatedAddress(value)
     IN  /\ address' = IF v.thrown THEN address ELSE v.value.n
         /\ lastSetter' = [set |-> TRUE, arg |-> value, error |-> v.error,
                           before |-> address]
  /\ unchangedInstance
  /\ UNCHANGED <<retries, oss, calibrationdata, initialized, calls>>

\* an oss setter that cuts the delay down to the longest of the table
SetOssClamped(value) ==
  /\ constructed
  /\ oss' = [value EXCEPT !.delay = IF @ > 26 THEN 26 ELSE @]
  /\ unchangedInstance
  /\ UNCHANGED <<address, lastSetter, retries, calibrationdata, initialized,
                 calls>>

\* sensor.oss = value
SetOss(value) ==
  /\ constructed
  /\ oss' = value
  /\ unchangedInstance
  /\ UNCHANGED <<address, lastSetter, retries, calibrationdata, initialized,
                 calls>>

\* _closeI2c() that closes whatever bus it has
closeI2cAlways(c) ==
  [c EXCEPT !.phase = "closing", !.step = "close", !.attempt = 1,
            !.invocations = 1, !.txn = [NoTxn EXCEPT !.kind = "close"],
            !.log = Append(@, LogEntry("close", 0, Undefined))]

\* _closeI2c(): resolve(false) at once for a bus the caller supplied,
\* else bus.close() is invoked, once and without promise-retry
closeI2c(c) ==
  IF isNil(busnumber) THEN resolved(c, False)
  ELSE [c EXCEPT !.phase = "closing", !.step = "close", !.attempt = 1,
                 !.invocations = 1,
                 !.txn = [NoTxn EXCEPT !.kind = "close"],
                 !.log = Append(@, LogEntry("close", 0, Undefined))]

\* sensor.close()
CallClose(i) ==
  /\ Free(i)
  /\ calls' = [calls EXCEPT ![i] = closeI2c(begin("close"))]
  /\ unchangedInstance /\ unchangedDriver

\* the caller drops a call that has nothing left to run
Forget(i) ==
  /\ calls[i].op # "none"
  /\ calls[i].phase = "idle"
  /\ calls' = [calls EXCEPT ![i] = NoCall]
  /\ unchangedInstance /\ unchangedDriver

(***************************************************************************)
(* Actions: the bus and the timers.                                        *)
(***************************************************************************)
\* the state after the handlers of call i ran
Settle(i, a) ==
  /\ calls' = [calls EXCEPT ![i] = a.call]
  /\ calibrationdata' = a.calibrationdata
  /\ initialized' = a.initialized

\* the bus resolved the transaction of call c with response
received(c, response) ==
  [c EXCEPT !.lastResp = response,
            !.short = @ \/ (c.txn.kind = "readBlock"
                             /\ response.n < c.txn.arg.n)]

\* the transaction in flight resolves, and the handlers waiting for it run
BusResolve(i) ==
  /\ calls[i].phase = "io"
  /\ \E response \in busResponses(calls[i].txn) :
       Settle(i, onFulfilled(received(calls[i], response), response))
  /\ unchangedInstance
  /\ UNCHANGED <<address, lastSetter, retries, oss>>

\* the transaction in flight rejects
BusReject(i) ==
  /\ calls[i].phase = "io"
  /\ calls' = [calls EXCEPT ![i] = onRejected(calls[i], ErrTransport)]
  /\ unchangedInstance /\ unchangedDriver

\* bus.close() resolves: resolve(true)
CloseResolve(i) ==
  /\ calls[i].phase = "closing"
  /\ calls' = [calls EXCEPT ![i] = resolved(calls[i], True)]
  /\ closed' = TRUE
  /\ UNCHANGED <<device, ctorArgs, constructed, ctorError, busOpened,
                 validbus, busnumber>>
  /\ unchangedDriver

\* bus.close() rejects: reject(err)
CloseReject(i) ==
  /\ calls[i].phase = "closing"
  /\ calls' = [calls EXCEPT
                  ![i] = rejected([calls[i] EXCEPT !.failures = @ + 1,
                                                   !.lastErr = ErrTransport],
                                  ErrTransport)]
  /\ unchangedInstance /\ unchangedDriver

\* the backoff of promise-retry is over
RetryTimer(i) ==
  /\ calls[i].phase = "backoff"
  /\ calls' = [calls EXCEPT ![i] = nextAttempt(calls[i])]
  /\ unchangedInstance /\ unchangedDriver

\* the conversion delay is over
DelayTimer(i) ==
  /\ calls[i].phase = "delay"
  /\ calls' = [calls EXCEPT ![i] = onDelay(calls[i])]
  /\ unchangedInstance /\ unchangedDriver

(***************************************************************************)
(* Specifications.                                                         *)
(***************************************************************************)
\* the slots of the caller
Slots == 1..MaxCalls

BusEvents(i) ==
  \/ BusResolve(i)
  \/ BusReject(i)
  \/ RetryTimer(i)
  \/ DelayTimer(i)
  \/ Forget(i)

\* the driver: the public methods of Bmp180sensor on an instance built
\* with the default address
Init ==
  /\ device = DefaultDevice
  /\ InitWith({Integer(1)}, {Undefined}, 0..DriverRetries,
              {bmp180sensorDefaults.oss}, Slots)

Next ==
  \/ \E i \in Slots : CallIsValidChipId(i)
  \/ \E i \in Slots : CallSoftreset(i)
  \/ \E i \in Slots : CallCalibrate(i)
  \/ \E i \in Slots : CallInitialize(i)
  \/ \E i \in Slots : CallTemperature(i)
  \/ \E i \in Slots : CallPressure(i)
  \/ \E i \in Slots : BusEvents(i)

Spec == Init /\ [][Next]_vars

\* the bus channel: the four register operations of I2csensor called
\* directly, with valid and invalid arguments
InitBus ==
  /\ device = DefaultDevice
  /\ InitWith({Integer(1)}, {Undefined}, 0..MaxRetries,
              {bmp180sensorDefaults.oss}, Slots)

NextBus ==
  \/ \E i \in Slots, command \in CommandInputs : CallReadI2cByte(i, command)
  \/ \E i \in Slots, command \in CommandInputs, byte \in ByteInputs :
       CallWriteI2cByte(i, command, byte)
  \/ \E i \in Slots, command \in CommandInputs, buffer \in BufferInputs :
       CallReadI2cBlock(i, command, buffer)
  \/ \E i \in Slots, command \in CommandInputs, buffer \in BufferInputs :
       CallWriteI2cBlock(i, command, buffer)
  \/ \E i \in Slots : BusResolve(i)
  \/ \E i \in Slots : BusReject(i)
  \/ \E i \in Slots : RetryTimer(i)
  \/ \E i \in Slots : Forget(i)

SpecBus == InitBus /\ [][NextBus]_vars

\* the device address: construction with every kind of argument, the
\* address setter, and byte reads, one at a time, that use the address
InitAddress ==
  /\ device = DefaultDevice
  /\ InitWith(BusInputs, AddressInputs, 0..DriverRetries,
              {bmp180sensorDefaults.oss}, Slots)

NextAddress ==
  \/ \E value \in AddressInputs : SetAddress(value)
  \/ CallReadI2cByte(1, Integer(registers.chipid))
  \/ BusResolve(1)
  \/ BusReject(1)
  \/ RetryTimer(1)
  \/ Forget(1)

SpecAddress == InitAddress /\ [][NextAddress]_vars

\* the conversions: calibration, _computeB5 and the two measurements on
\* devices with different calibration blocks, in every oversampling mode
InitConvert ==
  /\ device \in ConvertDevices
  /\ InitWith({Integer(1)}, {Undefined}, {0},
              {oversamplingSettings.ultra_low_power,
               oversamplingSettings.standard, oversamplingSettings.high,
               oversamplingSettings.ultra_high_resolution}, Slots)

NextConvert ==
  \/ \E i \in Slots : CallCalibrate(i)
  \/ \E i \in Slots, ut \in RawInputs : CallComputeB5(i, ut)
  \/ \E i \in Slots : CallTemperature(i)
  \/ \E i \in Slots : CallPressure(i)
  \/ \E i \in Slots : BusResolve(i)
  \/ \E i \in Slots : BusReject(i)
  \/ \E i \in Slots : DelayTimer(i)
  \/ \E i \in Slots : Forget(i)

SpecConvert == InitConvert /\ [][NextConvert]_vars

\* the temperature conversion called with raw temperatures of the whole
\* 16-bit range, on the calibrations of TemperatureDevice
InitTemperature ==
  /\ device = TemperatureDevice
  /\ InitWith({Integer(1)}, {Undefined}, 0..DriverRetries,
              {bmp180sensorDefaults.oss}, Slots)

NextTemperature ==
  \/ \E i \in Slots : CallCalibrate(i)
  \/ \E i \in Slots, ut \in TemperatureInputs :
       CallConvertUncompensatedTemperature(i, ut)
  \/ \E i \in Slots : BusResolve(i)
  \/ \E i \in Slots : BusReject(i)
  \/ \E i \in Slots : RetryTimer(i)
  \/ \E i \in Slots : Forget(i)

SpecTemperature == InitTemperature /\ [][NextTemperature]_vars

\* the calibration: calibrate() and initialize() on a device whose
\* calibration reads differ from one read to the next
InitCalibrate ==
  /\ device = CalibrateDevice
  /\ InitWith({Integer(1)}, {Undefined}, 0..DriverRetries,
              {bmp180sensorDefaults.oss}, Slots)

NextCalibrate ==
  \/ \E i \in Slots : CallCalibrate(i)
  \/ \E i \in Slots : CallInitialize(i)
  \/ \E i \in Slots : BusResolve(i)
  \/ \E i \in Slots : BusReject(i)
  \/ \E i \in Slots : RetryTimer(i)
  \/ \E i \in Slots : Forget(i)

SpecCalibrate == InitCalibrate /\ [][NextCalibrate]_vars

\* the life of an instance built on a bus of the caller or on a bus
\* number: chip id check, initialize() and close() in any order
InitLifecycle ==
  /\ device = DefaultDevice
  /\ InitWith({BusObj, Integer(1)}, {Undefined}, 0..DriverRetries,
              {bmp180sensorDefaults.oss}, Slots)

NextLifecycle ==
  \/ \E i \in Slots : CallIsValidChipId(i)
  \/ \E i \in Slots : CallClose(i)
  \/ \E i \in Slots : CloseResolve(i)
  \/ \E i \in Slots : CloseReject(i)
  \/ \E i \in Slots : CallInitialize(i)
  \/ \E i \in Slots : BusResolve(i)
  \/ \E i \in Slots : BusReject(i)
  \/ \E i \in Slots : RetryTimer(i)
  \/ \E i \in Slots : Forget(i)

SpecLifecycle == InitLifecycle /\ [][NextLifecycle]_vars

\* a caller that does not await: up to MaxOverlap public methods of one
\* instance are started before the earlier ones settle
Callers == 1..MaxOverlap

InitOverlap ==
  /\ device = DefaultDevice
  /\ InitWith({Integer(1)}, {Undefined}, {0},
              {bmp180sensorDefaults.oss}, Callers)

NextOverlap ==
  \/ \E i \in Callers : CallInitialize(i)
  \/ \E i \in Callers : CallTemperature(i)
  \/ \E i \in Callers : CallPressure(i)
  \/ \E i \in Callers : BusResolve(i)
  \/ \E i \in Callers : BusReject(i)
  \/ \E i \in Callers : DelayTimer(i)
  \/ \E i \in Callers : Forget(i)

SpecOverlap == InitOverlap /\ [][NextOverlap]_vars

\* a session of a caller that awaits each call: every public method,
\* close() and assignments to the oss property in any order, the
\* assignments also while a call is in progress
InitSession ==
  /\ device = DefaultDevice
  /\ InitWith({Integer(1)}, {Undefined}, 0..DriverRetries,
              {bmp180sensorDefaults.oss}, Slots)

NextSession ==
  \/ \E value \in OssInputs : SetOss(value)
  \/ CallIsValidChipId(1)
  \/ CallSoftreset(1)
  \/ CallCalibrate(1)
  \/ CallInitialize(1)
  \/ CallTemperature(1)
  \/ CallPressure(1)
  \/ CallClose(1)
  \/ CloseResolve(1)
  \/ CloseReject(1)
  \/ BusResolve(1)
  \/ BusReject(1)
  \/ RetryTimer(1)
  \/ DelayTimer(1)
  \/ Forget(1)

SpecSession == InitSession /\ [][NextSession]_vars

(***************************************************************************)
(* Properties of the retry discipline (SpecBus).                           *)
(***************************************************************************)
\* C2: when the bus rejects every attempt of a transaction, the driver
\* stops after retries + 1 invocations and the operation fails with the
\* last error of the bus
C2_ExhaustionCarriesLastError ==
  \A i \in Slots :
    calls[i].exhausted =>
      /\ calls[i].invocations = retries + 1
      /\ calls[i].phase = "idle"
      /\ calls[i].status = "rejected"
      /\ calls[i].error = calls[i].lastErr

\* the bus rejected every attempt, and the operation was rejected with the
\* value undefined in place of the error of the bus
C2_Witness ==
  \E i \in Slots :
    /\ calls[i].exhausted
    /\ calls[i].invocations = retries + 1
    /\ calls[i].status = "rejected"
    /\ calls[i].lastErr = ErrTransport
    /\ calls[i].error = ErrUndefined

\* C3: a transaction whose first N - 1 attempts the bus rejects and whose
\* N-th it resolves succeeds with the response of the N-th attempt after
\* exactly N invocations, for every N up to retries + 1; nothing is
\* invoked after the success, and a transaction is given up only when
\* retries + 1 attempts have failed
C3_RetryUntilSuccess ==
  \A i \in Slots :
    LET c == calls[i]
    IN  /\ (c.step = "done" /\ c.status = "resolved") =>
             /\ c.result = c.lastResp
             /\ c.invocations = c.failures + 1
             /\ c.invocations = c.attempt
             /\ c.invocations <= retries + 1
             /\ c.phase = "idle"
             /\ ~c.exhausted
        /\ c.exhausted => c.failures = retries + 1
        /\ c.phase = "io" => c.invocations = c.failures + 1
        /\ c.phase = "backoff" =>
             c.invocations = c.failures /\ c.failures <= retries

\* a transaction succeeded at its last permitted attempt
C3_Witness ==
  \E i \in Slots :
    /\ calls[i].status = "resolved"
    /\ retries > 0
    /\ calls[i].failures = retries
    /\ calls[i].invocations = retries + 1

(***************************************************************************)
(* Properties of argument validation (SpecBus).                            *)
(***************************************************************************)
\* C7: a register operation called with a register that is not an integer
\* in [0, 0xFF] fails with the validation error of the register before the
\* bus is invoked at all, and nothing is retried
C7_InvalidRegisterRejected ==
  \A i \in Slots :
    LET c == calls[i]
    IN  (c.op \in {"_readI2cByte", "_writeI2cByte", "_readI2cBlock",
                   "_writeI2cBlock"}
         /\ ~(c.command.t = "number" /\ c.command.d = 1
              /\ c.command.n >= 0 /\ c.command.n <= 255))
        => /\ c.status = "threw"
           /\ c.error = ErrInvalidCommand
           /\ c.invocations = 0
           /\ c.attempt = 0
           /\ c.phase = "idle"
           /\ c.txn = NoTxn

\* a register operation was refused for its register, the bus untouched
C7_Witness ==
  \E i \in Slots :
    /\ calls[i].op \in {"_readI2cByte", "_writeI2cByte", "_readI2cBlock",
                        "_writeI2cBlock"}
    /\ calls[i].command = Integer(256)
    /\ calls[i].status = "threw"
    /\ calls[i].error = ErrInvalidCommand
    /\ calls[i].invocations = 0

\* C8: a byte write whose value is not an integer in [0, 0xFF] is refused,
\* and that value is never handed to the bus
C8_WriteByteValueValidated ==
  \A i \in Slots :
    calls[i].txn.kind = "writeByte" =>
      /\ calls[i].txn.arg.t = "number"
      /\ calls[i].txn.arg.d = 1
      /\ calls[i].txn.arg.n >= 0
      /\ calls[i].txn.arg.n <= 255

\* the bus was invoked with the value 256 of a byte write
C8_Witness ==
  \E i \in Slots :
    /\ calls[i].op = "_writeI2cByte"
    /\ calls[i].txn.kind = "writeByte"
    /\ calls[i].txn.arg = Integer(256)
    /\ calls[i].invocations >= 1

(***************************************************************************)
(* Properties of the measurements (Spec).                                  *)
(***************************************************************************)
\* C1: when the raw acquisition behind temperature() or pressure() fails,
\* the promise the caller holds is rejected with that failure; it is never
\* left pending
C1_FailurePropagates ==
  \A i \in Slots :
    (calls[i].op \in {"temperature", "pressure"}
     /\ calls[i].inner = "rejected")
    => (calls[i].status = "rejected"
        /\ calls[i].error = calls[i].innerError)

\* the raw acquisition of a measurement failed for good and the promise
\* the caller holds is still pending, with nothing left to run
C1_Witness ==
  \E i \in Slots :
    /\ calls[i].op \in {"temperature", "pressure"}
    /\ calls[i].inner = "rejected"
    /\ calls[i].exhausted
    /\ calls[i].status = "pending"
    /\ calls[i].phase = "idle"

\* C4: a block read that reports fewer bytes than were asked for fails the
\* operation, calibration with the calibration-data error and a raw
\* acquisition with the results error, and leaves the calibration snapshot
\* as it was
C4_ShortReadDetected ==
  [][\A i \in Slots :
       (calls[i].phase = "io" /\ ~calls[i].short /\ calls'[i].short)
       => /\ calibrationdata' = calibrationdata
          /\ IF calls[i].step = "calibrate"
             THEN /\ calls'[i].status = "rejected"
                  /\ calls'[i].error = ErrNoCalibrationData
             ELSE /\ calls'[i].inner = "rejected"
                  /\ calls'[i].innerError = ErrNoResults]_vars

\* calibrate() resolved on a read that reported no byte at all, and the
\* driver counts as calibrated with the zeros of the buffer
C4_Witness ==
  \E i \in Slots :
    /\ calls[i].op = "calibrate"
    /\ calls[i].short
    /\ calls[i].lastResp.n = 0
    /\ calls[i].status = "resolved"
    /\ isCalibrated(calibrationdata)
    /\ calibrationdata = decodeCalibration(Zeros(calLength))

\* C10: when the raw samples of temperature() or pressure() reach the
\* conversion while the driver holds no calibration, the call is rejected
\* with the not-calibrated error and yields no value, whatever the samples
\* are; a call that yields a value found the driver calibrated
C10_UncalibratedRejected ==
  [][\A i \in Slots :
       (calls[i].op \in {"temperature", "pressure"}
        /\ calls[i].inner = "pending" /\ calls'[i].inner = "fulfilled")
       => IF isCalibrated(calibrationdata)
          THEN calls'[i].status = "resolved"
          ELSE /\ calls'[i].status = "rejected"
               /\ calls'[i].error = ErrNotCalibrated
               /\ calls'[i].result = Undefined]_vars

\* a measurement on a driver without calibration was rejected for that
C10_Witness ==
  \E i \in Slots :
    /\ calls[i].op \in {"temperature", "pressure"}
    /\ calls[i].inner = "fulfilled"
    /\ calls[i].status = "rejected"
    /\ calls[i].error = ErrNotCalibrated
    /\ ~isCalibrated(calibrationdata)

(***************************************************************************)
(* Properties of the composed sequences (Spec).                            *)
(***************************************************************************)
\* C5: initialize() asks the bus for the chip id, then writes the reset,
\* then reads the calibration, each only after the one before succeeded;
\* once a step has failed nothing more is issued, the call is rejected
\* with the error that step failed with and leaves the calibration as it
\* was, and the flag stays false; the flag turns true only in the step in
\* which the third of the three steps succeeds
C5_InitializeSequence ==
  [][/\ \A i \in Slots :
          LET c == calls[i]
              d == calls'[i]
              order == <<LogEntry("readByte", registers.chipid, Undefined),
                         LogEntry("writeByte", registers.softreset,
                                  Integer(ResetCommand)),
                         LogEntry("readBlock", registers.calibration,
                                  Buf(Zeros(calLength)))>>
          IN  d.op = "initialize" =>
                /\ Len(d.log) <= 3
                /\ d.log = SubSeq(order, 1, Len(d.log))
                /\ Len(d.log) = Len(c.log) + 1 =>
                     \/ c.op = "none"
                     \/ /\ c.phase = "io"
                        /\ d.lastErr = c.lastErr
                        /\ Len(c.log) = 1 => d.lastResp = Integer(ChipId)
                /\ d.status = "pending" /\ d.alone => ~initialized'
                /\ d.status = "rejected" =>
                     /\ d.phase = "idle"
                     /\ d.alone => ~initialized'
                     /\ \/ d.exhausted /\ d.error = ErrUndefined
                        \/ /\ Len(d.log) = 1
                           /\ d.lastResp # Integer(ChipId)
                           /\ d.error = ErrChipId
                /\ c.status = "pending" /\ d.status = "rejected" =>
                     /\ calibrationdata' = calibrationdata
                     /\ initialized' = initialized
                /\ c.status = "pending" /\ d.status = "resolved" =>
                     initialized' /\ Len(d.log) = 3
     /\ (initialized' /\ ~initialized) =>
          \E j \in Slots :
            /\ calls[j].op = "initialize"
            /\ calls[j].step = "calibrate"
            /\ calls[j].phase = "io"
            /\ calls'[j].status = "resolved"
            /\ calls'[j].failures = calls[j].failures
            /\ Len(calls'[j].log) = 3]_vars

\* initialize() was rejected because the reset could not be written: the
\* calibration was never read and both flags are false
C5_Witness ==
  \E i \in Slots :
    /\ calls[i].op = "initialize"
    /\ calls[i].status = "rejected"
    /\ Len(calls[i].log) = 2
    /\ ~initialized
    /\ ~isCalibrated(calibrationdata)

\* C6: a pressure() call writes the temperature command, waits, reads two
\* bytes, and only then writes the pressure command, waits and reads three
\* bytes; the value it yields is the conversion of the temperature and the
\* pressure sample read by this very call
C6_TemperatureBeforePressure ==
  [][\A i \in Slots :
       LET c == calls[i]
           d == calls'[i]
           order == <<<<"writeByte", registers.control>>, <<"delay", 0>>,
                      <<"readBlock", registers.results>>,
                      <<"writeByte", registers.control>>, <<"delay", 0>>,
                      <<"readBlock", registers.results>>>>
       IN  d.op = "pressure" =>
             /\ Len(d.log) <= 6
             /\ \A k \in 1..Len(d.log) :
                  <<d.log[k].ev, d.log[k].reg>> = order[k]
             /\ Len(d.log) >= 1 =>
                  d.log[1].arg =
                    Integer(oversamplingSettings.temperature.command)
             /\ Len(d.log) >= 3 => d.log[3].arg = Buf(Zeros(2))
             /\ Len(d.log) >= 4 =>
                  /\ d.log[4].arg = Integer(oss.command)
                  /\ d.log[4].arg #
                       Integer(oversamplingSettings.temperature.command)
                  /\ d.ut # Undefined
             /\ Len(d.log) >= 6 => d.log[6].arg = Buf(Zeros(3))
             /\ (Len(c.log) = 3 /\ Len(d.log) = 4) =>
                  /\ c.phase = "io"
                  /\ d.lastErr = c.lastErr
                  /\ d.ut = Integer(d.lastResp.b[1] * 256 + d.lastResp.b[2])
             /\ (c.status = "pending" /\ d.status = "resolved") =>
                  /\ Len(d.log) = 6 /\ c.phase = "io"
                  /\ d.ut = c.ut
                  /\ d.up = Floor(Divide(Integer(d.lastResp.b[1] * 65536
                                                 + d.lastResp.b[2] * 256
                                                 + d.lastResp.b[3]),
                                         Pow2(8 - oss.mode)))
                  /\ d.result =
                       convertUncompensatedPressure(calibrationdata, oss,
                                                    d.ut, d.up).value]_vars

\* a pressure() call yielded a value after its six steps
C6_Witness ==
  \E i \in Slots :
    /\ calls[i].op = "pressure"
    /\ calls[i].status = "resolved"
    /\ Len(calls[i].log) = 6
    /\ calls[i].ut = Integer(TemperatureSample[1] * 256 + TemperatureSample[2])
    /\ calls[i].up # Integer(0)

(***************************************************************************)
(* Properties of the device address (SpecAddress).                         *)
(***************************************************************************)
\* C9: the address of an instance is an integer in [0, 0x7F] in every
\* state, and so is the address of every bus transaction; the constructor
\* throws the invalid-address error for an address outside the range; the
\* setter throws it for such a value and leaves the address as it was
C9_AddressInRange ==
  LET given == IF ctorArgs.address = Undefined THEN Integer(DefaultAddress)
               ELSE ctorArgs.address
      inRange(v) == v.t = "number" /\ v.d = 1 /\ v.n >= 0 /\ v.n <= 127
  IN  /\ constructed => address \in 0..127
      /\ ~inRange(given) => ~constructed /\ ctorError = ErrInvalidAddress
      /\ lastSetter.set =>
           IF inRange(lastSetter.arg)
           THEN lastSetter.error = "none"
           ELSE /\ lastSetter.error = ErrInvalidAddress
                /\ address = lastSetter.before
      /\ \A i \in Slots :
           calls[i].txn.kind # "none" => calls[i].txn.address \in 0..127

\* the setter refused an address and the instance kept a different, valid
\* one that it had been assigned before
C9_Witness ==
  /\ constructed
  /\ lastSetter.set
  /\ lastSetter.error = ErrInvalidAddress
  /\ lastSetter.arg = Integer(128)
  /\ address = lastSetter.before
  /\ address # DefaultAddress
  /\ ctorArgs.address = Undefined

(***************************************************************************)
(* Properties of the compensation (SpecConvert).                           *)
(***************************************************************************)
\* C11: when X1 + md is zero for the calibration held and the integer raw
\* temperature given, _computeB5 throws, and temperature() and pressure()
\* are rejected; none of them yields an infinite or NaN value
C11_ZeroDivisorRefused ==
  [][\A i \in Slots :
       LET d == calls'[i]
           cd == calibrationdata
           zero(ut) ==
             /\ isCalibrated(cd)
             /\ isInteger(ut)
             /\ Floor(Divide(Times(Minus(ut, Integer(cd.ac6)),
                                   Integer(cd.ac5)), Pow2(15))).n
                  + cd.md = 0
       IN  /\ \A ut \in RawInputs :
                (CallComputeB5(i, ut) /\ zero(ut)) => d.status = "threw"
           /\ (calls[i].inner = "pending" /\ d.inner = "fulfilled"
               /\ zero(d.ut))
              => d.status = "rejected"
           /\ d.status \in {"returned", "resolved"} =>
                d.result.t \notin {"nan", "inf"}]_vars

\* _computeB5 returned Infinity on a full calibration block with md 1
C11_Witness ==
  \E i \in Slots :
    /\ calls[i].op = "_computeB5"
    /\ calls[i].ut = Integer(27898)
    /\ calls[i].status = "returned"
    /\ calls[i].result = Infinity
    /\ calibrationdata = decodeCalibration(ZeroDivisorCalibration)

\* C13: for a calibration held and an integer raw temperature with
\* X1 + md not zero, _computeB5 returns X1 + X2 with
\* X1 = floor((ut - ac6) * ac5 / 2^15) and X2 = floor(mc * 2^11 / (X1 + md)),
\* an integer
C13_B5Integer ==
  [][\A i \in Slots, ut \in RawInputs :
       LET cd == calibrationdata
           X1 == Floor(Divide(Times(Minus(ut, Integer(cd.ac6)),
                                    Integer(cd.ac5)), Pow2(15)))
           X2 == Floor(Divide(Integer(cd.mc * 2048),
                              Plus(X1, Integer(cd.md))))
       IN  (CallComputeB5(i, ut) /\ isCalibrated(cd) /\ isInteger(ut)
            /\ X1.n + cd.md # 0)
           => /\ calls'[i].status = "returned"
              /\ calls'[i].result = Plus(X1, X2)
              /\ isInteger(calls'[i].result)]_vars

\* _computeB5 returned -1 + 2048/3 = 2045/3
C13_Witness ==
  \E i \in Slots :
    /\ calls[i].op = "_computeB5"
    /\ calls[i].ut = Integer(27898)
    /\ calls[i].status = "returned"
    /\ calls[i].result = Number(2045, 3)
    /\ calibrationdata = decodeCalibration(CalibrationSample)

\* C14: whenever pressure() yields a finite number, in any oversampling
\* mode, that number is an integer
C14_PressureInteger ==
  \A i \in Slots :
    (calls[i].op = "pressure" /\ calls[i].status = "resolved"
     /\ calls[i].result.t = "number")
    => isInteger(calls[i].result)

\* pressure() resolved with 50396/3 Pa from the raw temperature 0, for
\* which B5 is the integer 1022, and the raw pressure 2
C14_Witness ==
  \E i \in Slots :
    /\ calls[i].op = "pressure"
    /\ calls[i].status = "resolved"
    /\ ~calls[i].short
    /\ calls[i].ut = Integer(0)
    /\ calls[i].up = Integer(2)
    /\ oss = oversamplingSettings.standard
    /\ calibrationdata = decodeCalibration(CalibrationSample)
    /\ calls[i].result = Number(50396, 3)

\* C24: for a calibration held and an integer raw temperature in
\* 0..65535 with X1 + md not zero, the temperature conversion returns
\* T / 10 with T = floor((B5 + 8) / 2^4), B5 = X1 + floor(mc * 2^11 /
\* (X1 + md)) and X1 = floor((ut - ac6) * ac5 / 2^15), all in integers
C24_TemperatureAsReference ==
  [][\A i \in Slots, ut \in TemperatureInputs :
       LET cd == calibrationdata
           FloorDiv(a, b) == IF b > 0 THEN a \div b ELSE (-a) \div (-b)
           X1 == ((ut.n - cd.ac6) * cd.ac5) \div 32768
           B5 == X1 + FloorDiv(cd.mc * 2048, X1 + cd.md)
           T == (B5 + 8) \div 16
       IN  (/\ CallConvertUncompensatedTemperature(i, ut)
            /\ isCalibrated(cd)
            /\ isInteger(ut)
            /\ ut.n \in 0..65535
            /\ X1 + cd.md # 0)
           => /\ calls'[i].status = "returned"
              /\ calls'[i].result = Number(T, 10)]_vars

\* on the data sheet's calibration the conversion of 27898 returned 15
\* degrees, where _computeB5 gives 2399 and a fraction
C24_Witness ==
  \E i \in Slots :
    /\ calls[i].op = "_convertUncompensatedTemperature"
    /\ calls[i].ut = Integer(27898)
    /\ calls[i].status = "returned"
    /\ calls[i].result = Integer(15)
    /\ calibrationdata.ac5 = 32757
    /\ calibrationdata.mc = -8711
    /\ ~isInteger(computeB5(calibrationdata, Integer(27898)).value)

(***************************************************************************)
(* Properties of the calibration (SpecCalibrate).                          *)
(***************************************************************************)
\* C12: when a calibration read succeeds, the snapshot stored is the
\* eleven big-endian 16-bit values at the offsets 0, 2, ..., 20 of the
\* response, ac4, ac5 and ac6 unsigned and the others in two's complement;
\* it is a function of the response bytes alone, so the same response
\* gives the same snapshot
C12_CalibrationDecoded ==
  [][\A i \in Slots :
       LET c == calls[i]
           d == calls'[i]
           b == d.lastResp.b
           U(k) == b[k + 1] * 256 + b[k + 2]
           S(k) == IF U(k) >= 32768 THEN U(k) - 65536 ELSE U(k)
       IN  (c.step = "calibrate" /\ c.phase = "io"
            /\ d.status = "resolved")
           => /\ Len(b) = calLength
              /\ calibrationdata' =
                   [nil |-> FALSE, ac1 |-> S(0), ac2 |-> S(2), ac3 |-> S(4),
                    ac4 |-> U(6), ac5 |-> U(8), ac6 |-> U(10),
                    b1 |-> S(12), b2 |-> S(14), mb |-> S(16),
                    mc |-> S(18), md |-> S(20)]
              /\ \A f \in {"ac4", "ac5", "ac6"} :
                   calibrationdata'[f] \in 0..65535
              /\ \A f \in {"ac1", "ac2", "ac3", "b1", "b2", "mb", "mc",
                           "md"} :
                   calibrationdata'[f] \in -32768..32767]_vars

\* calibrate() resolved on the block with the top bits set
C12_Witness ==
  \E i \in Slots :
    /\ calls[i].op = "calibrate"
    /\ calls[i].status = "resolved"
    /\ calls[i].lastResp.b = HighBitCalibration
    /\ calibrationdata.ac1 = 32767
    /\ calibrationdata.ac2 = -32768
    /\ calibrationdata.ac5 = 65535
    /\ calibrationdata.mb = -19422

\* C20: the snapshot is absent or holds the eleven values of one single
\* calibration response, in every state and also while a calibrate() is in
\* progress; it changes only in the step in which a calibration read
\* resolves, all fields at once, and a calibrate() that rejects leaves it
\* as it was
C20_SnapshotAtomic ==
  [][LET U(b, k) == b[k + 1] * 256 + b[k + 2]
         S(b, k) == IF U(b, k) >= 32768 THEN U(b, k) - 65536 ELSE U(b, k)
         Of(b) == [nil |-> FALSE, ac1 |-> S(b, 0), ac2 |-> S(b, 2),
                   ac3 |-> S(b, 4), ac4 |-> U(b, 6), ac5 |-> U(b, 8),
                   ac6 |-> U(b, 10), b1 |-> S(b, 12), b2 |-> S(b, 14),
                   mb |-> S(b, 16), mc |-> S(b, 18), md |-> S(b, 20)]
         Responses ==
           {[k \in 1..calLength |-> IF k <= n THEN data[k] ELSE 0] :
              n \in {0, calLength}, data \in device.calibration}
         Whole(cd) == cd = NoCalibration \/ \E b \in Responses : cd = Of(b)
     IN  /\ Whole(calibrationdata)
         /\ Whole(calibrationdata')
         /\ calibrationdata' # calibrationdata =>
              \E i \in Slots :
                /\ calls[i].step = "calibrate"
                /\ calls[i].phase = "io"
                /\ calls'[i].phase # "io"
                /\ calls'[i].failures = calls[i].failures
                /\ calls'[i].status # "rejected"
                /\ calibrationdata' = Of(calls'[i].lastResp.b)
         /\ \A i \in Slots :
              (calls[i].status = "pending" /\ calls'[i].status = "rejected")
              => calibrationdata' = calibrationdata]_vars

\* a calibrate() rejected after an earlier one had stored the data sheet's
\* values, which are still there
C20_Witness ==
  \E i \in Slots :
    /\ calls[i].op = "calibrate"
    /\ calls[i].status = "rejected"
    /\ calls[i].failures > 0
    /\ calibrationdata.ac1 = 408
    /\ calibrationdata.ac4 = 32741
    /\ calibrationdata.md = 2868

\* C23, as the code has it: a calibration read that resolves with the 22
\* bytes 0x23 0x29 ... 0x00 0x14 stores ac1 9001, ac2 -62, ac3 -811,
\* ac4 32535, ac5 26273, ac6 32768, b1 22, b2 44, mb -19422, mc 6081,
\* md 20
C23_ExampleDecoded ==
  [][\A i \in Slots :
       (/\ calls[i].step = "calibrate"
        /\ calls[i].phase = "io"
        /\ calls'[i].status = "resolved"
        /\ calls'[i].lastResp.b = ExampleCalibration)
       => calibrationdata' =
            [nil |-> FALSE, ac1 |-> 9001, ac2 |-> -62, ac3 |-> -811,
             ac4 |-> 32535, ac5 |-> 26273, ac6 |-> 32768, b1 |-> 22,
             b2 |-> 44, mb |-> -19422, mc |-> 6081, md |-> 20]]_vars

\* calibrate() resolved on the 22 bytes 0x23 0x29 ... 0x00 0x14
C23_Witness ==
  \E i \in Slots :
    /\ calls[i].op = "calibrate"
    /\ calls[i].status = "resolved"
    /\ calls[i].lastResp.n = calLength
    /\ calls[i].lastResp.b = ExampleCalibration
    /\ isCalibrated(calibrationdata)

\* C23, as stated: a calibration read that resolves with the 22 bytes
\* 0x23 0x29 ... 0x00 0x14 stores ac1 9035, ac2 -60, ac3 -832, ac4 32741,
\* ac5 26171, ac6 -32768, b1 22, b2 44, mb -19418, mc 6099, md 20
C23_ExampleAsStated ==
  [][\A i \in Slots :
       (/\ calls[i].step = "calibrate"
        /\ calls[i].phase = "io"
        /\ calls'[i].status = "resolved"
        /\ calls'[i].lastResp.b = ExampleCalibration)
       => calibrationdata' =
            [nil |-> FALSE, ac1 |-> 9035, ac2 |-> -60, ac3 |-> -832,
             ac4 |-> 32741, ac5 |-> 26171, ac6 |-> -32768, b1 |-> 22,
             b2 |-> 44, mb |-> -19418, mc |-> 6099, md |-> 20]]_vars

C16_CloseIdempotent ==
  [][\A i \in Slots :
       (CallClose(i) /\ closed)
       => /\ calls'[i].status = "resolved"
          /\ calls'[i].result = True
          /\ calls'[i].invocations = 0]_vars

\* the close of the bus is invoked again after a close() has succeeded
C16_Witness ==
  \E i \in Slots :
    /\ closed
    /\ calls[i].op = "close"
    /\ calls[i].phase = "closing"
    /\ calls[i].invocations = 1

\* C19: isValidChipId() reads register 0xD0; when the read answers it
\* resolves true if the byte is 0x55 and only then, and for another byte
\* it rejects with the chip id error at once, without a further read; no
\* step of the call changes the calibration snapshot or the initialized
\* flag
C19_ChipIdChecked ==
  [][\A i \in Slots :
       LET c == calls[i]
           d == calls'[i]
       IN  /\ CallIsValidChipId(i) =>
                /\ d.phase = "io"
                /\ d.txn.kind = "readByte"
                /\ d.txn.cmd = 208
                /\ d.invocations = 1
           /\ (c.op = "isValidChipId" /\ d # c) =>
                /\ calibrationdata' = calibrationdata
                /\ isCalibrated(calibrationdata') = isCalibrated(calibrationdata)
                /\ initialized' = initialized
           /\ (c.op = "isValidChipId" /\ BusResolve(i)) =>
                /\ d.phase = "idle"
                /\ d.invocations = c.invocations
                /\ IF d.lastResp = Integer(85)
                   THEN d.status = "resolved" /\ d.result = True
                   ELSE d.status = "rejected" /\ d.error = ErrChipId
           /\ (d.op = "isValidChipId" /\ d.status = "resolved") =>
                (d.lastResp = Integer(85) /\ d.result = True)]_vars

\* on a calibrated and initialized driver the chip id check read another
\* byte and rejected after its one read
C19_Witness ==
  \E i \in Slots :
    /\ isCalibrated(calibrationdata)
    /\ initialized
    /\ calls[i].op = "isValidChipId"
    /\ calls[i].status = "rejected"
    /\ calls[i].error = ErrChipId
    /\ calls[i].lastResp = Integer(0)
    /\ calls[i].invocations = 1

(***************************************************************************)
(* Properties of overlapping calls (SpecOverlap).                          *)
(***************************************************************************)
\* C17: the initialized flag reads false from the start of an
\* initialize() call until that call settles, also when another
\* initialize() of the same instance is in progress or has succeeded
C17_UninitializedDuringInitialize ==
  \A i \in Callers :
    (calls[i].op = "initialize" /\ calls[i].status = "pending")
    => ~initialized

\* an initialize() started during another one is still reading the
\* calibration when the earlier one has resolved and set the flag
C17_Witness ==
  \E i, j \in Callers :
    /\ i # j
    /\ calls[i].op = "initialize"
    /\ calls[i].status = "resolved"
    /\ calls[j].op = "initialize"
    /\ calls[j].status = "pending"
    /\ calls[j].phase = "io"
    /\ ~calls[j].alone
    /\ initialized

\* C18: at most one bus transaction of the instance is in flight at any
\* time, also when a public method is called before an earlier one has
\* settled
C18_OneTransactionInFlight ==
  Cardinality({i \in Callers : calls[i].phase = "io"}) <= 1

\* the read of the temperature result of one call is in flight while the
\* write of the pressure command of another call is in flight
C18_Witness ==
  \E i, j \in Callers :
    /\ i # j
    /\ calls[i].op = "temperature"
    /\ calls[i].phase = "io"
    /\ calls[i].step = "tempRead"
    /\ calls[i].txn.kind = "readBlock"
    /\ calls[i].txn.cmd = registers.results
    /\ calls[j].op = "pressure"
    /\ calls[j].phase = "io"
    /\ calls[j].step = "pressWrite"
    /\ calls[j].txn.kind = "writeByte"
    /\ calls[j].txn.cmd = registers.control
    /\ calls[j].txn.arg = Integer(oss.command)

(***************************************************************************)
(* Properties of the construction (SpecAddress).                           *)
(***************************************************************************)
\* C21, as the code has it: when the address argument is valid or
\* omitted, construction throws one of the two invalid-bus errors for
\* every bus argument that is neither a Bus object nor a non-negative
\* integer; for such a bus argument no instance is built and no bus is
\* opened, whatever the address; every instance built reports
\* isValidBus = true
C21_InvalidBusRejected ==
  LET bus == ctorArgs.bus
      a == ctorArgs.address
      acceptable == bus.t = "bus"
                      \/ (bus.t = "number" /\ bus.d = 1 /\ bus.n >= 0)
      addressOk == a.t = "undefined"
                     \/ (a.t = "number" /\ a.d = 1 /\ a.n >= 0 /\ a.n <= 127)
  IN  /\ (~acceptable /\ addressOk) =>
           ctorError \in {ErrInvalidBus, ErrInvalidBusNumber}
      /\ ~acceptable => (~constructed /\ ~busOpened /\ ~validbus)
      /\ constructed => (validbus /\ acceptable)

\* construction with the bus number -1 and no address threw
C21_Witness ==
  /\ ctorArgs.bus = Integer(-1)
  /\ ctorArgs.address = Undefined
  /\ ~constructed
  /\ ctorError = ErrInvalidBusNumber
  /\ ~busOpened

\* C21, as stated: construction throws the invalid-bus error for every
\* bus argument that is neither a Bus object nor a non-negative integer
C21_InvalidBusErrorAlways ==
  LET bus == ctorArgs.bus
      acceptable == bus.t = "bus"
                      \/ (bus.t = "number" /\ bus.d = 1 /\ bus.n >= 0)
  IN  ~acceptable =>
        (~constructed
         /\ ctorError \in {ErrInvalidBus, ErrInvalidBusNumber})

(***************************************************************************)
(* Properties of the oversampling setting and of the flags (SpecSession).  *)
(***************************************************************************)
\* C22: a driver built without an oss option has the standard setting
\* {mode 1, command 0x74, delay 8}; an assignment of a record v to the oss
\* property makes the property read v and changes neither the calibration
\* snapshot nor the initialized flag; the temperature setting stays
\* {command 0x2E, delay 8} and is what every temperature conversion
\* writes and waits for
C22_OssAssigned ==
  /\ constructed => oss = [mode |-> 1, command |-> 116, delay |-> 8]
  /\ [][/\ \A v \in OssInputs :
             SetOss(v) => /\ oss' = v
                          /\ calibrationdata' = calibrationdata
                          /\ initialized' = initialized
                          /\ calls' = calls
        /\ oversamplingSettings.temperature.command = 46
        /\ oversamplingSettings.temperature.delay = 8
        /\ \A i \in Slots :
             LET d == calls'[i]
             IN  /\ d.step = "tempWrite" => d.txn.arg = Integer(46)
                 /\ d.step = "tempDelay" =>
                      d.log[Len(d.log)].arg = Integer(8)]_vars

\* on a calibrated driver the oss property was assigned the caller's own
\* record while a temperature conversion waited for its delay
C22_Witness ==
  \E i \in Slots :
    /\ oss = [mode |-> 2, command |-> 180, delay |-> 30]
    /\ isCalibrated(calibrationdata)
    /\ initialized
    /\ calls[i].op = "temperature"
    /\ calls[i].step = "tempDelay"

\* C25: the command a pressure() call writes to the control register,
\* the delay it waits and the mode it shifts the three result bytes with
\* (which is also the mode of its compensation) belong to one and the
\* same oversampling record
C25_SingleOssRecord ==
  \A i \in Slots :
    LET c == calls[i]
    IN  c.op = "pressure" =>
          \E r \in OssInputs :
            /\ Len(c.log) >= 4 => c.log[4].arg = Integer(r.command)
            /\ Len(c.log) >= 5 => c.log[5].arg = Integer(r.delay)
            /\ c.usedMode # -1 => c.usedMode = r.mode

\* a pressure() call resolved after it wrote the command of the standard
\* setting, waited the delay of the caller's own record and shifted the
\* result by the mode of the ultra low power setting
C25_Witness ==
  \E i \in Slots :
    /\ calls[i].op = "pressure"
    /\ calls[i].status = "resolved"
    /\ calls[i].log[4].arg = Integer(oversamplingSettings.standard.command)
    /\ calls[i].log[5].arg = Integer(30)
    /\ calls[i].usedMode = oversamplingSettings.ultra_low_power.mode
    /\ calls[i].result =
         convertUncompensatedPressure(calibrationdata,
                                      oversamplingSettings.ultra_low_power,
                                      calls[i].ut, calls[i].up).value

\* C26: in every state the initialized flag implies that a calibration
\* snapshot is held, and no step takes a snapshot that is held away
C26_InitializedImpliesCalibrated ==
  /\ initialized => isCalibrated(calibrationdata)
  /\ [][/\ isCalibrated(calibrationdata) => isCalibrated(calibrationdata')
        /\ initialized' => isCalibrated(calibrationdata')
        /\ (initialized' /\ ~initialized) =>
             \E i \in Slots : /\ calls[i].op = "initialize"
                              /\ calls[i].step = "calibrate"
                              /\ calls'[i].status = "resolved"]_vars

\* after initialize() succeeded, a later calibrate() failed and the
\* instance was closed: the flags are both still true
C26_Witness ==
  \E i \in Slots :
    /\ initialized
    /\ isCalibrated(calibrationdata)
    /\ closed
    /\ calls[i].op = "calibrate"
    /\ calls[i].status = "rejected"

====
